---- MODULE Spec2Model ----
(***************************************************************************)
(* Model of the Figma MCP server: the tool dispatcher (src/src/index.ts),  *)
(* the Figma REST client and the node-tree utilities (figma-client).       *)
(*                                                                         *)
(* Conventions                                                             *)
(*   - A text is a sequence of tokens (TLA+ strings); concatenation is \o  *)
(*     and a template literal is the concatenation of its pieces.  Node    *)
(*     names, queries and type tags are texts of one-character tokens so   *)
(*     that case conversion and substring search work on characters.       *)
(*   - A JavaScript number is an integer count of hundredths (100 is 1,    *)
(*     1 is 0.01), the resolution the image-scale bound needs.             *)
(*   - A raw JSON value is a record [t, s, n, a]: type tag, string         *)
(*     payload, number payload, array payload.                             *)
(***************************************************************************)
EXTENDS Integers, Sequences, FiniteSets, TLC

(***************************************************************************)
(* Bounds of the model                                                     *)
(***************************************************************************)
\* number of call slots the host may have in flight at the same time
NumCalls == 2
\* largest number of children of the wide search trees
MaxWide == 52
\* largest number of tokens of the path of a URL
MaxPathLen == 5
\* largest number of nodes of the trees given to the tree utilities
MaxTreeNodes == 4
\* largest number of characters of the text content of a node
MaxChars == 52

Calls == 1..NumCalls

(***************************************************************************)
(* Texts                                                                   *)
(***************************************************************************)
Min2(a, b) == IF a < b THEN a ELSE b

\* String.prototype.toLowerCase, per character
LowerChar(ch) ==
  CASE ch = "B" -> "b"
    [] ch = "T" -> "t"
    [] ch = "F" -> "f"
    [] ch = "E" -> "e"
    [] ch = "X" -> "x"
    [] OTHER -> ch

\* String.prototype.toUpperCase, per character
UpperChar(ch) ==
  CASE ch = "b" -> "B"
    [] ch = "t" -> "T"
    [] ch = "f" -> "F"
    [] ch = "e" -> "E"
    [] ch = "x" -> "X"
    [] OTHER -> ch

toLowerCase(s) == [i \in 1..Len(s) |-> LowerChar(s[i])]

toUpperCase(s) == [i \in 1..Len(s) |-> UpperChar(s[i])]

\* String.prototype.includes: sub occurs in s as a contiguous run
includes(s, sub) ==
  \E i \in 0..(Len(s) - Len(sub)) :
    \A j \in 1..Len(sub) : s[i + j] = sub[j]

\* Array.prototype.slice(0, n)
slice0(s, n) == SubSeq(s, 1, Min2(n, Len(s)))

\* Array.prototype.join(sep) on an array of texts
RECURSIVE join(_, _)
join(arr, sep) ==
  IF Len(arr) = 0 THEN <<>>
  ELSE IF Len(arr) = 1 THEN arr[1]
  ELSE arr[1] \o <<sep>> \o join(Tail(arr), sep)

\* Number.prototype.toString (of a number held in hundredths)
numToString(n) == <<ToString(n)>>

(***************************************************************************)
(* Raw JSON values of the caller's arguments                               *)
(***************************************************************************)
StrV(s) == [t |-> "string", s |-> s, n |-> 0, a |-> <<>>]
NumV(n) == [t |-> "number", s |-> <<>>, n |-> n, a |-> <<>>]
BoolV == [t |-> "boolean", s |-> <<>>, n |-> 0, a |-> <<>>]
\* an array whose elements are atoms [t, s, n]
ArrV(a) == [t |-> "array", s |-> <<>>, n |-> 0, a |-> a]
StrA(s) == [t |-> "string", s |-> s, n |-> 0]
NumA(n) == [t |-> "number", s |-> <<>>, n |-> n]

\* request.params.arguments: absent, or an object of named raw values
NoArgs == [given |-> FALSE, f |-> <<>>]
ArgsOf(fields) == [given |-> TRUE, f |-> fields]

Has(args, k) == args.given /\ k \in DOMAIN args.f

(***************************************************************************)
(* Tool input schemas (Zod)                                                *)
(***************************************************************************)
\* z.number().min(0.01).max(4), in hundredths
ScaleMin == 1
ScaleMax == 400

ImageFormats == {<<"png">>, <<"jpg">>, <<"svg">>, <<"pdf">>}

\* one field of a z.object: kind is string, url, number, scale, strings, format
Req(name, kind) == [name |-> name, kind |-> kind, optional |-> FALSE]
Opt(name, kind) == [name |-> name, kind |-> kind, optional |-> TRUE]

GetFileSchema == <<Req("file_key", "string"), Opt("depth", "number")>>

GetFileFromUrlSchema == <<Req("url", "url"), Opt("depth", "number")>>

GetNodeSchema == <<Req("file_key", "string"), Req("node_id", "string")>>

GetNodesSchema == <<Req("file_key", "string"), Req("node_ids", "strings")>>

GetImagesSchema ==
  <<Req("file_key", "string"), Req("node_ids", "strings"),
    Opt("format", "format"), Opt("scale", "scale")>>

GetCommentsSchema == <<Req("file_key", "string")>>

PostCommentSchema ==
  <<Req("file_key", "string"), Req("message", "string"), Opt("node_id", "string")>>

GetComponentsSchema == <<Req("file_key", "string")>>

GetStylesSchema == <<Req("file_key", "string")>>

SearchNodesSchema ==
  <<Req("file_key", "string"), Req("query", "string"), Opt("type", "string")>>

GetProjectFilesSchema == <<Req("project_id", "string")>>

GetTeamProjectsSchema == <<Req("team_id", "string")>>

(***************************************************************************)
(* URLs.  A URL text is tokenised: the first token is scheme and host, the *)
(* path follows as "/" and word tokens (a word token is a maximal          *)
(* alphanumeric run or a run of other characters), then optionally the     *)
(* query: a token that starts a parameter ("?node-id=", "?t=", then        *)
(* "&node-id=", "&t=") each followed by its percent-encoded value, if any. *)
(***************************************************************************)
Origins == {"https://www.figma.com", "https://example.org", "file://"}

AlnumWords == {"file", "design", "other", "ABC123", "XYZ9", "My", "File"}

\* decodeURIComponent as URLSearchParams.get applies it
DecodeParam(tok) ==
  CASE tok = "1%3A2" -> <<"1", ":", "2">>
    [] tok = "0%3A1" -> <<"0", ":", "1">>
    [] OTHER -> <<tok>>

\* new URL(url) succeeds: an absolute URL with scheme and host
IsUrl(url) == Len(url) >= 1 /\ url[1] \in Origins

\* the tokens that start the query string, and those that start a parameter
QueryStarts == {"?node-id=", "?t="}
ParamStarts == QueryStarts \cup {"&node-id=", "&t="}
NodeIdStarts == {"?node-id=", "&node-id="}

QueryAt(url) ==
  IF \E i \in 1..Len(url) : url[i] \in QueryStarts
  THEN CHOOSE i \in 1..Len(url) :
         /\ url[i] \in QueryStarts
         /\ \A j \in 1..(i - 1) : url[j] \notin QueryStarts
  ELSE Len(url) + 1

\* urlObj.pathname
pathname(url) == SubSeq(url, 2, QueryAt(url) - 1)

\* where the first node-id parameter of the query starts, 0 when there is none
NodeIdAt(url) ==
  IF \E i \in QueryAt(url)..Len(url) : url[i] \in NodeIdStarts
  THEN CHOOSE i \in QueryAt(url)..Len(url) :
         /\ url[i] \in NodeIdStarts
         /\ \A j \in QueryAt(url)..(i - 1) : url[j] \notin NodeIdStarts
  ELSE 0

\* urlObj.searchParams.get('node-id') is not null
hasNodeIdParam(url) == NodeIdAt(url) # 0

\* urlObj.searchParams.get('node-id'): <<>> stands for null and for ''
searchParamNodeId(url) ==
  IF /\ hasNodeIdParam(url)
     /\ NodeIdAt(url) < Len(url)
     /\ url[NodeIdAt(url) + 1] \notin ParamStarts
  THEN DecodeParam(url[NodeIdAt(url) + 1])
  ELSE <<>>

\* pathname.match(/\/(file|design)\/([a-zA-Z0-9]+)/): leftmost match
PathMatchAt(p, i) ==
  /\ i + 3 <= Len(p)
  /\ p[i] = "/"
  /\ p[i + 1] \in {"file", "design"}
  /\ p[i + 2] = "/"
  /\ p[i + 3] \in AlnumWords

\* what parseFigmaUrl returns: null (found is FALSE), or the file key with
\* the node id, which is undefined when hasNodeId is FALSE
UrlNull ==
  [threw |-> FALSE, found |-> FALSE, fileKey |-> <<>>,
   hasNodeId |-> FALSE, nodeId |-> <<>>]

UrlThrown == [UrlNull EXCEPT !.threw = TRUE]

\* the try block of parseFigmaUrl
parseFigmaUrlTry(url) ==
  IF ~IsUrl(url) THEN UrlThrown
  ELSE LET p == pathname(url) IN
    IF ~\E i \in 1..Len(p) : PathMatchAt(p, i)
    THEN UrlNull
    ELSE LET i == CHOOSE k \in 1..Len(p) :
                    PathMatchAt(p, k) /\ \A j \in 1..(k - 1) : ~PathMatchAt(p, j)
         IN [threw |-> FALSE, found |-> TRUE, fileKey |-> <<p[i + 3]>>,
             hasNodeId |-> searchParamNodeId(url) # <<>>,
             nodeId |-> searchParamNodeId(url)]

\* parseFigmaUrl without its try and catch
parseFigmaUrlNoCatch(url) == parseFigmaUrlTry(url)

parseFigmaUrl(url) ==
  IF parseFigmaUrlTry(url).threw THEN UrlNull ELSE parseFigmaUrlTry(url)

(***************************************************************************)
(* Schema.parse                                                            *)
(***************************************************************************)
Issue(path, code) == [path |-> path, code |-> code]

\* issues of the elements of z.array(z.string())
RECURSIVE ElementIssues(_, _, _)
ElementIssues(field, arr, i) ==
  IF i > Len(arr) THEN <<>>
  ELSE (IF arr[i].t = "string" THEN <<>>
        ELSE <<Issue(<<field, ToString(i - 1)>>, "invalid_type")>>)
       \o ElementIssues(field, arr, i + 1)

\* issues of one present value against one field kind
ValueIssues(field, kind, v) ==
  CASE kind = "string" ->
         IF v.t = "string" THEN <<>> ELSE <<Issue(<<field>>, "invalid_type")>>
    [] kind = "url" ->
         IF v.t # "string" THEN <<Issue(<<field>>, "invalid_type")>>
         ELSE IF IsUrl(v.s) THEN <<>> ELSE <<Issue(<<field>>, "invalid_string")>>
    [] kind = "number" ->
         IF v.t = "number" THEN <<>> ELSE <<Issue(<<field>>, "invalid_type")>>
    [] kind = "scale" ->
         IF v.t # "number" THEN <<Issue(<<field>>, "invalid_type")>>
         ELSE (IF v.n < ScaleMin THEN <<Issue(<<field>>, "too_small")>> ELSE <<>>)
              \o (IF v.n > ScaleMax THEN <<Issue(<<field>>, "too_big")>> ELSE <<>>)
    [] kind = "strings" ->
         IF v.t # "array" THEN <<Issue(<<field>>, "invalid_type")>>
         ELSE ElementIssues(field, v.a, 1)
    [] kind = "format" ->
         IF v.t # "string" THEN <<Issue(<<field>>, "invalid_type")>>
         ELSE IF v.s \in ImageFormats THEN <<>>
         ELSE <<Issue(<<field>>, "invalid_enum_value")>>

FieldIssues(fs, args) ==
  IF fs.name \in DOMAIN args.f THEN ValueIssues(fs.name, fs.kind, args.f[fs.name])
  ELSE IF fs.optional THEN <<>>
  ELSE <<Issue(<<fs.name>>, "invalid_type")>>

RECURSIVE ObjectIssues(_, _, _)
ObjectIssues(schema, args, i) ==
  IF i > Len(schema) THEN <<>>
  ELSE FieldIssues(schema[i], args) \o ObjectIssues(schema, args, i + 1)

\* z.object(...).parse(args): the issues found, none when the parse succeeds
ZodIssues(schema, args) ==
  IF ~args.given THEN <<Issue(<<>>, "invalid_type")>>
  ELSE ObjectIssues(schema, args, 1)

\* ZodError.message: the serialised issue list
RECURSIVE ZodMessage(_)
ZodMessage(issues) ==
  IF Len(issues) = 0 THEN <<>>
  ELSE <<"code:", issues[1].code, "path:">> \o issues[1].path
       \o ZodMessage(Tail(issues))

(***************************************************************************)
(* Node tree (FigmaNode) and the tree utilities                            *)
(***************************************************************************)
\* optional properties of a node: absent, present with the expected shape,
\* or present with another shape (a number, null)
NoProps ==
  [hasCharacters |-> FALSE, charactersIsString |-> FALSE, characters |-> <<>>,
   hasFills |-> FALSE, fillsIsArray |-> FALSE, fills |-> 0,
   hasBox |-> FALSE, boxIsObject |-> FALSE, width |-> 0, height |-> 0]

Leaf(id, name, type) ==
  [id |-> id, name |-> name, type |-> type,
   hasChildren |-> FALSE, children |-> <<>>, props |-> NoProps]

Parent(id, name, type, kids) ==
  [id |-> id, name |-> name, type |-> type,
   hasChildren |-> TRUE, children |-> kids, props |-> NoProps]

RECURSIVE flattenNodes(_)
RECURSIVE flattenEach(_, _)
\* the for-of loop of flattenNodes over node.children, from child i on
flattenEach(kids, i) ==
  IF i > Len(kids) THEN <<>>
  ELSE flattenNodes(kids[i]) \o flattenEach(kids, i + 1)

\* flattenNodes with the push after the loop (post-order)
flattenNodesPostOrder(node) ==
  (IF node.hasChildren THEN flattenEach(node.children, 1) ELSE <<>>) \o <<node>>

flattenNodes(node) ==
  <<node>> \o (IF node.hasChildren THEN flattenEach(node.children, 1) ELSE <<>>)

NotFound == [found |-> FALSE, node |-> Leaf(<<>>, <<>>, <<>>)]

RECURSIVE findNodeById(_, _)
RECURSIVE findInChildren(_, _, _)
\* findInChildren keeping the last child that has a match
RECURSIVE findInChildrenLast(_, _, _)
findInChildrenLast(kids, id, i) ==
  IF i > Len(kids) THEN NotFound
  ELSE IF findInChildrenLast(kids, id, i + 1).found
  THEN findInChildrenLast(kids, id, i + 1)
  ELSE findNodeById(kids[i], id)

findInChildren(kids, id, i) ==
  IF i > Len(kids) THEN NotFound
  ELSE LET found == findNodeById(kids[i], id) IN
       IF found.found THEN found ELSE findInChildren(kids, id, i + 1)

findNodeById(root, id) ==
  IF root.id = id THEN [found |-> TRUE, node |-> root]
  ELSE IF root.hasChildren THEN findInChildren(root.children, id, 1)
  ELSE NotFound

\* Math.round of a number held in hundredths, as an integer
MathRound(n) == (n + 50) \div 100

TextType == <<"T", "E", "X", "T">>

\* summarizeNode raises a TypeError on these nodes
summarizeThrows(node) ==
  \/ /\ node.type = TextType
     /\ node.props.hasCharacters
     /\ ~node.props.charactersIsString
  \/ node.props.hasBox /\ ~node.props.boxIsObject

summarizeNode(node) ==
  join(
    <<node.type \o <<": \"">> \o node.name \o <<"\" (id: ">> \o node.id \o <<")">>>>
    \o (IF node.hasChildren
        THEN <<<<"children: ", ToString(Len(node.children))>>>> ELSE <<>>)
    \o (IF node.type = TextType /\ node.props.hasCharacters
        THEN <<<<"text: \"">> \o slice0(node.props.characters, 50) \o <<"...\"">>>>
        ELSE <<>>)
    \o (IF node.props.hasFills /\ node.props.fillsIsArray
        THEN <<<<"fills: ", ToString(node.props.fills)>>>> ELSE <<>>)
    \o (IF node.props.hasBox
        THEN <<<<"size: ", ToString(MathRound(node.props.width)), "x",
                 ToString(MathRound(node.props.height))>>>>
        ELSE <<>>),
    " | ")

(***************************************************************************)
(* FigmaClient                                                             *)
(***************************************************************************)
FIGMA_API_BASE == <<"https://api.figma.com/v1">>

\* process.env.FIGMA_ACCESS_TOKEN, fixed at startup
AccessToken == "figd_token"

\* encodeURIComponent as URLSearchParams.toString applies it, per token
EncodeChar(tok) ==
  CASE tok = ":" -> "%3A"
    [] tok = "," -> "%2C"
    [] OTHER -> tok

encode(s) == [i \in 1..Len(s) |-> EncodeChar(s[i])]

NoBody == [present |-> FALSE, message |-> <<>>, hasClientMeta |-> FALSE, node_id |-> <<>>]

\* the RequestInit default of request()
NoOptions == [method |-> "GET", body |-> NoBody, headers |-> <<>>]

\* FigmaClient.request up to the fetch call: the HTTP request it issues
request(endpoint, options) ==
  [url |-> FIGMA_API_BASE \o endpoint,
   method |-> options.method,
   body |-> options.body,
   headers |-> options.headers
               @@ ("X-Figma-Token" :> AccessToken)
               @@ ("Content-Type" :> "application/json")]

getFile(fileKey, hasDepth, depth) ==
  request(<<"/files/">> \o fileKey
          \o (IF hasDepth THEN <<"?", "depth=">> \o numToString(depth) ELSE <<>>),
          NoOptions)

getNodes(fileKey, nodeIds) ==
  request(<<"/files/">> \o fileKey \o <<"/nodes?ids=">> \o join(nodeIds, ","),
          NoOptions)

getImages(fileKey, nodeIds, hasFormat, format, hasScale, scale) ==
  request(<<"/images/">> \o fileKey \o <<"?", "ids=">> \o encode(join(nodeIds, ","))
          \o <<"&scale=">>
          \o numToString(IF hasScale /\ scale # 0 THEN scale ELSE 100)
          \o <<"&format=">>
          \o (IF hasFormat /\ format # <<>> THEN format ELSE <<"png">>),
          NoOptions)

getComments(fileKey) == request(<<"/files/">> \o fileKey \o <<"/comments">>, NoOptions)

postComment(fileKey, message, hasNodeId, nodeId) ==
  request(<<"/files/">> \o fileKey \o <<"/comments">>,
          [method |-> "POST",
           body |-> [present |-> TRUE, message |-> message,
                     hasClientMeta |-> hasNodeId /\ nodeId # <<>>,
                     node_id |-> IF hasNodeId THEN nodeId ELSE <<>>],
           headers |-> <<>>])

getFileComponents(fileKey) ==
  request(<<"/files/">> \o fileKey \o <<"/components">>, NoOptions)

getFileStyles(fileKey) ==
  request(<<"/files/">> \o fileKey \o <<"/styles">>, NoOptions)

getTeamProjects(teamId) ==
  request(<<"/teams/">> \o teamId \o <<"/projects">>, NoOptions)

getProjectFiles(projectId) ==
  request(<<"/projects/">> \o projectId \o <<"/files">>, NoOptions)

(***************************************************************************)
(* Responses of the upstream API and how request() settles on them         *)
(***************************************************************************)
\* Response.ok: status in the range 200-299
OkMin == 200
OkMax == 299

responseOk(status) == OkMin <= status /\ status <= OkMax

\* a thrown value: an McpError (mcp, with its code) or another Error
McpError(code, message) == [mcp |-> TRUE, code |-> code, message |-> message]
Error(message) == [mcp |-> FALSE, code |-> "", message |-> message]

NoError == Error(<<>>)

\* the parsed JSON object of a body: a FigmaFile, possibly lacking fields
NoValue ==
  [name |-> <<>>, lastModified |-> <<>>, version |-> <<>>,
   hasDocument |-> FALSE, document |-> Leaf(<<>>, <<>>, <<>>),
   hasComponents |-> FALSE, components |-> 0,
   hasStyles |-> FALSE, styles |-> 0]

\* the promise of request(): resolved with the decoded body or rejected
Resolved(value) == [ok |-> TRUE, value |-> value, err |-> NoError]
Rejected(err) == [ok |-> FALSE, value |-> NoValue, err |-> err]

\* fetch itself rejects (network failure)
FetchFailed == Rejected(Error(<<"fetch failed">>))

\* requestSettle without the response.ok test
requestSettleUnchecked(resp) ==
  IF ~resp.body.json
  THEN Rejected(Error(<<"Unexpected token in JSON">>))
  ELSE Resolved(resp.body.value)

\* requestSettle with an undecodable body treated as an empty object
requestSettleLenient(resp) ==
  IF ~responseOk(resp.status)
  THEN Rejected(Error(<<"Figma API error (", ToString(resp.status), "): ">>
                      \o resp.body.raw))
  ELSE Resolved(resp.body.value)

\* FigmaClient.request after fetch resolved with resp
requestSettle(resp) ==
  IF ~responseOk(resp.status)
  THEN Rejected(Error(<<"Figma API error (", ToString(resp.status), "): ">>
                      \o resp.body.raw))
  ELSE IF ~resp.body.json
  THEN Rejected(Error(<<"Unexpected token in JSON">>))
  ELSE Resolved(resp.body.value)

(***************************************************************************)
(* CallToolRequestSchema handler                                           *)
(***************************************************************************)
ToolNames ==
  {"get_file", "get_file_from_url", "get_node", "get_nodes", "get_images",
   "get_comments", "post_comment", "get_components", "get_styles",
   "search_nodes", "get_project_files", "get_team_projects"}

\* the field of the parsed arguments, a placeholder when absent (undefined)
Field(args, k) == IF Has(args, k) THEN args.f[k] ELSE StrV(<<>>)

\* a parsed array of strings as a sequence of texts
Strings(v) == [i \in 1..Len(v.a) |-> v.a[i].s]

ZodError(issues) == Error(ZodMessage(issues))

TypeErrorUndefined == Error(<<"Cannot read properties of undefined">>)
TypeErrorKeys == Error(<<"Cannot convert undefined or null to object">>)
TypeErrorSubstring == Error(<<"substring is not a function">>)

TypeErrorNull == Error(<<"Cannot read properties of null">>)

\* the TypeError summarizeNode raises on a node of summarizeThrows
summarizeError(node) ==
  IF /\ node.type = TextType
     /\ node.props.hasCharacters
     /\ ~node.props.charactersIsString
  THEN TypeErrorSubstring ELSE TypeErrorNull

NoRequest == request(<<>>, NoOptions)

Throw(err) == [kind |-> "throw", err |-> err, req |-> NoRequest]
Await(req) == [kind |-> "await", err |-> NoError, req |-> req]

\* ParseThen with the client call made without waiting for the parse
ParseThenEager(schema, args, req) == Await(req)

\* a case that parses with schema and, when the parse succeeds, awaits req
ParseThen(schema, args, req) ==
  IF Len(ZodIssues(schema, args)) > 0
  THEN Throw(ZodError(ZodIssues(schema, args)))
  ELSE Await(req)

\* the handler from its entry to its first await or throw
Begin(name, args) ==
  CASE name = "get_file" ->
         ParseThen(GetFileSchema, args,
           getFile(Field(args, "file_key").s, Has(args, "depth"),
                   Field(args, "depth").n))
    [] name = "get_file_from_url" ->
         IF Len(ZodIssues(GetFileFromUrlSchema, args)) > 0
         THEN Throw(ZodError(ZodIssues(GetFileFromUrlSchema, args)))
         ELSE IF ~parseFigmaUrl(Field(args, "url").s).found
         THEN Throw(McpError("InvalidParams", <<"Invalid Figma URL">>))
         ELSE Await(getFile(parseFigmaUrl(Field(args, "url").s).fileKey,
                            Has(args, "depth"), Field(args, "depth").n))
    [] name = "get_node" ->
         ParseThen(GetNodeSchema, args,
           getNodes(Field(args, "file_key").s, <<Field(args, "node_id").s>>))
    [] name = "get_nodes" ->
         ParseThen(GetNodesSchema, args,
           getNodes(Field(args, "file_key").s, Strings(Field(args, "node_ids"))))
    [] name = "get_images" ->
         ParseThen(GetImagesSchema, args,
           getImages(Field(args, "file_key").s, Strings(Field(args, "node_ids")),
                     Has(args, "format"), Field(args, "format").s,
                     Has(args, "scale"), Field(args, "scale").n))
    [] name = "get_comments" ->
         ParseThen(GetCommentsSchema, args, getComments(Field(args, "file_key").s))
    [] name = "post_comment" ->
         ParseThen(PostCommentSchema, args,
           postComment(Field(args, "file_key").s, Field(args, "message").s,
                       Has(args, "node_id"), Field(args, "node_id").s))
    [] name = "get_components" ->
         ParseThen(GetComponentsSchema, args,
           getFileComponents(Field(args, "file_key").s))
    [] name = "get_styles" ->
         ParseThen(GetStylesSchema, args, getFileStyles(Field(args, "file_key").s))
    [] name = "search_nodes" ->
         ParseThen(SearchNodesSchema, args,
           getFile(Field(args, "file_key").s, FALSE, 0))
    [] name = "get_project_files" ->
         ParseThen(GetProjectFilesSchema, args,
           getProjectFiles(Field(args, "project_id").s))
    [] name = "get_team_projects" ->
         ParseThen(GetTeamProjectsSchema, args,
           getTeamProjects(Field(args, "team_id").s))
    [] OTHER ->
         Throw(McpError("MethodNotFound", <<"Unknown tool: ", name>>))

\* the schema each case of the switch parses the arguments with
SchemaOf(name) ==
  CASE name = "get_file" -> GetFileSchema
    [] name = "get_file_from_url" -> GetFileFromUrlSchema
    [] name = "get_node" -> GetNodeSchema
    [] name = "get_nodes" -> GetNodesSchema
    [] name = "get_images" -> GetImagesSchema
    [] name = "get_comments" -> GetCommentsSchema
    [] name = "post_comment" -> PostCommentSchema
    [] name = "get_components" -> GetComponentsSchema
    [] name = "get_styles" -> GetStylesSchema
    [] name = "search_nodes" -> SearchNodesSchema
    [] name = "get_project_files" -> GetProjectFilesSchema
    [] name = "get_team_projects" -> GetTeamProjectsSchema

\* the limit of results.slice(0, 50)
MaxMatches == 50

\* searchMatch comparing the name without lower-casing it
searchMatchCaseSensitive(node, query, hasType, type) ==
  /\ includes(node.name, query)
  /\ (~hasType \/ type = <<>> \/ node.type = toUpperCase(type))

\* the filter callback of search_nodes
searchMatch(node, query, hasType, type) ==
  /\ includes(toLowerCase(node.name), toLowerCase(query))
  /\ (~hasType \/ type = <<>> \/ node.type = toUpperCase(type))

\* allNodes.filter(...)
searchMatches(allNodes, query, hasType, type) ==
  SelectSeq(allNodes, LAMBDA node : searchMatch(node, query, hasType, type))

\* matches.map(...): one result entry per match
searchResults(matches) ==
  [i \in 1..Len(matches) |->
     [id |-> matches[i].id, name |-> matches[i].name, type |-> matches[i].type,
      summary |-> summarizeNode(matches[i])]]

\* file.document.children?.map(...) of get_file
topLevelFrames(document) ==
  IF document.hasChildren
  THEN [i \in 1..Len(document.children) |->
          [id |-> document.children[i].id, name |-> document.children[i].name,
           type |-> document.children[i].type,
           childCount |-> IF document.children[i].hasChildren
                          THEN Len(document.children[i].children) ELSE 0]]
  ELSE <<>>

\* file.document.children?.map(...) of get_file_from_url
topLevelFramesOfUrl(document) ==
  IF document.hasChildren
  THEN [i \in 1..Len(document.children) |->
          [id |-> document.children[i].id, name |-> document.children[i].name,
           type |-> document.children[i].type]]
  ELSE <<>>

Return(payload) == [kind |-> "return", err |-> NoError, payload |-> payload]
Raise(err) == [kind |-> "throw", err |-> err, payload |-> [none |-> TRUE]]

finishGetFile(file) ==
  IF ~file.hasDocument THEN Raise(TypeErrorUndefined)
  ELSE IF ~file.hasComponents \/ ~file.hasStyles THEN Raise(TypeErrorKeys)
  ELSE Return(
    [name |-> file.name, lastModified |-> file.lastModified,
     version |-> file.version,
     totalNodes |-> Len(flattenNodes(file.document)),
     componentCount |-> file.components, styleCount |-> file.styles,
     hasTopLevelFrames |-> file.document.hasChildren,
     topLevelFrames |-> topLevelFrames(file.document),
     document |-> file.document])

finishGetFileFromUrl(parsed, file) ==
  IF ~file.hasDocument THEN Raise(TypeErrorUndefined)
  ELSE IF ~file.hasComponents THEN Raise(TypeErrorKeys)
  ELSE LET focus == IF parsed.nodeId # <<>>
                    THEN findNodeById(file.document, parsed.nodeId)
                    ELSE NotFound
       IN IF focus.found /\ summarizeThrows(focus.node)
          THEN Raise(summarizeError(focus.node))
          ELSE Return(
            [name |-> file.name, fileKey |-> parsed.fileKey,
             lastModified |-> file.lastModified,
             totalNodes |-> Len(flattenNodes(file.document)),
             componentCount |-> file.components,
             hasFocusedNode |-> focus.found,
             focusedNode |-> IF focus.found THEN summarizeNode(focus.node)
                             ELSE <<>>,
             hasTopLevelFrames |-> file.document.hasChildren,
             topLevelFrames |-> topLevelFramesOfUrl(file.document),
             document |-> file.document])

\* finishSearchNodes counting the matches after the slice
finishSearchNodesCapped(query, hasType, type, file) ==
  IF ~file.hasDocument THEN Raise(TypeErrorUndefined)
  ELSE LET matches == searchMatches(flattenNodes(file.document), query,
                                    hasType, type)
       IN IF \E i \in 1..Len(matches) : summarizeThrows(matches[i])
          THEN Raise(TypeErrorUndefined)
          ELSE Return(
            [query |-> query,
             type |-> IF hasType /\ type # <<>> THEN type ELSE <<"any">>,
             matchCount |-> Len(slice0(searchResults(matches), MaxMatches)),
             matches |-> slice0(searchResults(matches), MaxMatches)])

finishSearchNodes(query, hasType, type, file) ==
  IF ~file.hasDocument THEN Raise(TypeErrorUndefined)
  ELSE LET matches == searchMatches(flattenNodes(file.document), query,
                                    hasType, type)
       IN IF \E i \in 1..Len(matches) : summarizeThrows(matches[i])
          THEN Raise(summarizeError(
                 matches[CHOOSE i \in 1..Len(matches) :
                           /\ summarizeThrows(matches[i])
                           /\ \A j \in 1..(i - 1) : ~summarizeThrows(matches[j])]))
          ELSE Return(
            [query |-> query,
             type |-> IF hasType /\ type # <<>> THEN type ELSE <<"any">>,
             matchCount |-> Len(searchResults(matches)),
             matches |-> slice0(searchResults(matches), MaxMatches)])

\* the handler from the settling of its awaited client call to its end
Finish(name, args, settled) ==
  IF ~settled.ok THEN Raise(settled.err)
  ELSE CASE name = "get_file" -> finishGetFile(settled.value)
         [] name = "get_file_from_url" ->
              finishGetFileFromUrl(parseFigmaUrl(Field(args, "url").s),
                                   settled.value)
         [] name = "search_nodes" ->
              finishSearchNodes(Field(args, "query").s, Has(args, "type"),
                                Field(args, "type").s, settled.value)
         [] OTHER -> Return(settled.value)

\* Catch without the instanceof McpError test
CatchWrapAll(err) ==
  McpError("InternalError", <<"Figma API error: ">> \o err.message)

\* Catch with a fixed message in place of the error's own
CatchGeneric(err) ==
  IF err.mcp THEN err ELSE McpError("InternalError", <<"Figma API error">>)

\* the catch block: an McpError passes, anything else becomes InternalError
Catch(err) ==
  IF err.mcp THEN err
  ELSE McpError("InternalError", <<"Figma API error: ">> \o err.message)

\* the CallResult the protocol layer receives
Success(payload) ==
  [kind |-> "success", code |-> "", message |-> <<>>, payload |-> payload]
Failure(err) ==
  [kind |-> "failure", code |-> err.code, message |-> err.message,
   payload |-> [none |-> TRUE]]

\* the result of a handler run that ended with outcome
ResultOf(outcome) ==
  IF outcome.kind = "throw" THEN Failure(Catch(outcome.err))
  ELSE Success(outcome.payload)

(***************************************************************************)
(* State: one record of handler state per call slot                        *)
(***************************************************************************)
VARIABLES
  pc,        \* where the handler of the call is:
             \*   idle, fetching, reading, resuming, done
  name,      \* request.params.name of the call
  args,      \* request.params.arguments of the call
  requests,  \* the HTTP requests the call has issued, in order
  response,  \* the Response its fetch resolved with
  settled,   \* the settled promise of its FigmaClient operation
  results,   \* the CallResults the call has produced, in order
  util       \* a direct use of an export of figma-client or of the tool
             \*   listing: the operation, its argument and, once it has
             \*   run (done), its outcome

vars == <<pc, name, args, requests, response, settled, results, util>>

NoResponse == [status |-> 0, body |-> [raw |-> <<>>, json |-> FALSE, value |-> NoValue]]

Pending == Rejected(NoError)

\* no export is being used directly
NoUtil == [op |-> "none", done |-> TRUE]

Init ==
  /\ pc = [c \in Calls |-> "idle"]
  /\ name = [c \in Calls |-> ""]
  /\ args = [c \in Calls |-> NoArgs]
  /\ requests = [c \in Calls |-> <<>>]
  /\ response = [c \in Calls |-> NoResponse]
  /\ settled = [c \in Calls |-> Pending]
  /\ results = [c \in Calls |-> <<>>]
  /\ util = NoUtil

\* the host delivers a call: the handler runs to its first await or to its end
Invoke(c, n, a) ==
  /\ pc[c] = "idle"
  /\ name' = [name EXCEPT ![c] = n]
  /\ args' = [args EXCEPT ![c] = a]
  /\ IF Begin(n, a).kind = "throw"
     THEN /\ results' = [results EXCEPT ![c] = Append(@, ResultOf(Begin(n, a)))]
          /\ pc' = [pc EXCEPT ![c] = "done"]
          /\ UNCHANGED requests
     ELSE /\ requests' = [requests EXCEPT ![c] = Append(@, Begin(n, a).req)]
          /\ pc' = [pc EXCEPT ![c] = "fetching"]
          /\ UNCHANGED results
  /\ UNCHANGED <<response, settled, util>>

\* the await of fetch resolves with the upstream's response to the request
FetchResolve(c, resp) ==
  /\ pc[c] = "fetching"
  /\ response' = [response EXCEPT ![c] = resp]
  /\ pc' = [pc EXCEPT ![c] = "reading"]
  /\ UNCHANGED <<name, args, requests, settled, results, util>>

\* FetchReject with the rejection swallowed: the handler ends without a result
FetchRejectSilent(c) ==
  /\ pc[c] = "fetching"
  /\ pc' = [pc EXCEPT ![c] = "done"]
  /\ UNCHANGED <<name, args, requests, response, settled, results, util>>

\* the await of fetch rejects, and with it the client operation
FetchReject(c) ==
  /\ pc[c] = "fetching"
  /\ settled' = [settled EXCEPT ![c] = FetchFailed]
  /\ pc' = [pc EXCEPT ![c] = "resuming"]
  /\ UNCHANGED <<name, args, requests, response, results, util>>

\* BodyRead with the Response kept in a field of the one client instance:
\* the body read is that of whichever call's fetch resolved
BodyReadShared(c) ==
  /\ pc[c] = "reading"
  /\ \E d \in Calls :
       /\ pc[d] = "reading"
       /\ settled' = [settled EXCEPT ![c] = requestSettle(response[d])]
  /\ pc' = [pc EXCEPT ![c] = "resuming"]
  /\ UNCHANGED <<name, args, requests, response, results, util>>

\* response.text() or response.json() settles, and with it the client operation
BodyRead(c) ==
  /\ pc[c] = "reading"
  /\ settled' = [settled EXCEPT ![c] = requestSettle(response[c])]
  /\ pc' = [pc EXCEPT ![c] = "resuming"]
  /\ UNCHANGED <<name, args, requests, response, results, util>>

\* Resume with a rejected client operation sent again
ResumeRetry(c) ==
  /\ pc[c] = "resuming"
  /\ IF settled[c].ok
     THEN /\ results' = [results EXCEPT ![c] =
                           Append(@, ResultOf(Finish(name[c], args[c], settled[c])))]
          /\ pc' = [pc EXCEPT ![c] = "done"]
          /\ UNCHANGED requests
     ELSE /\ requests' = [requests EXCEPT ![c] = Append(@, requests[c][1])]
          /\ pc' = [pc EXCEPT ![c] = "fetching"]
          /\ UNCHANGED results
  /\ UNCHANGED <<name, args, response, settled, util>>

\* the handler resumes from its await and runs to its end
Resume(c) ==
  /\ pc[c] = "resuming"
  /\ results' = [results EXCEPT ![c] =
                   Append(@, ResultOf(Finish(name[c], args[c], settled[c])))]
  /\ pc' = [pc EXCEPT ![c] = "done"]
  /\ UNCHANGED <<name, args, requests, response, settled, util>>

\* the result has been sent; the slot takes the next call
Retire(c) ==
  /\ pc[c] = "done"
  /\ pc' = [pc EXCEPT ![c] = "idle"]
  /\ name' = [name EXCEPT ![c] = ""]
  /\ args' = [args EXCEPT ![c] = NoArgs]
  /\ requests' = [requests EXCEPT ![c] = <<>>]
  /\ response' = [response EXCEPT ![c] = NoResponse]
  /\ settled' = [settled EXCEPT ![c] = Pending]
  /\ results' = [results EXCEPT ![c] = <<>>]
  /\ UNCHANGED util

(***************************************************************************)
(* Inputs                                                                  *)
(***************************************************************************)
KeyA == <<"ABC123">>
KeyB == <<"XYZ9">>
Id12 == <<"1", ":", "2">>
Id01 == <<"0", ":", "1">>

GoodUrl ==
  <<"https://www.figma.com", "/", "design", "/", "XYZ9", "?node-id=", "1%3A2">>
FileUrl ==
  <<"https://www.figma.com", "/", "file", "/", "ABC123", "/", "My", "-", "File">>
OtherUrl == <<"https://www.figma.com", "/", "other", "/", "ABC123">>
NotAUrl == <<"not a url">>

\* the names a caller may send: the tools and two names that are none
CallNames == ToolNames \cup {"delete_file", ""}

RawArgs ==
  { NoArgs,
    ArgsOf([file_key |-> StrV(KeyA)]),
    ArgsOf([file_key |-> StrV(KeyA), depth |-> NumV(200)]),
    ArgsOf([file_key |-> NumV(500)]),
    ArgsOf([file_key |-> StrV(KeyA), depth |-> StrV(<<"2">>)]),
    ArgsOf([file_key |-> StrV(KeyA), node_id |-> StrV(Id12)]),
    ArgsOf([file_key |-> StrV(KeyA), node_ids |-> ArrV(<<StrA(Id12), StrA(Id01)>>)]),
    ArgsOf([file_key |-> StrV(KeyA), node_ids |-> ArrV(<<StrA(Id12), NumA(700)>>)]),
    ArgsOf([file_key |-> StrV(KeyA), node_ids |-> ArrV(<<StrA(Id12)>>),
            scale |-> NumV(500)]),
    ArgsOf([file_key |-> StrV(KeyA), node_ids |-> ArrV(<<StrA(Id12)>>),
            scale |-> NumV(0)]),
    ArgsOf([file_key |-> StrV(KeyA), node_ids |-> ArrV(<<StrA(Id12)>>),
            scale |-> NumV(400), format |-> StrV(<<"svg">>)]),
    ArgsOf([file_key |-> StrV(KeyA), node_ids |-> ArrV(<<StrA(Id12)>>),
            format |-> StrV(<<"gif">>)]),
    ArgsOf([file_key |-> StrV(KeyA), message |-> StrV(<<"hi">>)]),
    ArgsOf([file_key |-> StrV(KeyB), message |-> StrV(<<"hi">>),
            node_id |-> StrV(Id12)]),
    ArgsOf([file_key |-> StrV(KeyA), message |-> BoolV]),
    ArgsOf([file_key |-> StrV(KeyA), query |-> StrV(<<"b">>)]),
    ArgsOf([file_key |-> StrV(KeyA), query |-> StrV(<<"B", "t">>),
            type |-> StrV(<<"f">>)]),
    ArgsOf([project_id |-> StrV(<<"P1">>)]),
    ArgsOf([team_id |-> StrV(<<"T1">>)]),
    ArgsOf([url |-> StrV(GoodUrl)]),
    ArgsOf([url |-> StrV(FileUrl), depth |-> NumV(100)]),
    ArgsOf([url |-> StrV(OtherUrl)]),
    ArgsOf([url |-> StrV(NotAUrl)]) }

\* a small document: a page with a frame holding a text and a second frame
SmallDoc ==
  Parent(Id01, <<"P">>, <<"D">>,
    << Parent(Id12, <<"B", "t">>, <<"F">>,
         << [Leaf(<<"1", ":", "3">>, <<"b">>, TextType) EXCEPT
               !.props.hasCharacters = TRUE,
               !.props.charactersIsString = TRUE,
               !.props.characters = <<"h", "i">>] >>),
       Leaf(<<"1", ":", "4">>, <<"t", "b">>, <<"f">>) >>)

\* a document whose node 1:2 has a null bounding box
NullBoxDoc ==
  Parent(Id01, <<"P">>, <<"D">>,
    << [Leaf(Id12, <<"b">>, <<"F">>) EXCEPT !.props.hasBox = TRUE] >>)

FileValue(doc) ==
  [NoValue EXCEPT !.name = <<"My File">>, !.lastModified = <<"2024-01-01">>,
                  !.version = <<"7">>, !.hasDocument = TRUE, !.document = doc,
                  !.hasComponents = TRUE, !.components = 2,
                  !.hasStyles = TRUE, !.styles = 1]

JsonBody(raw, value) == [raw |-> raw, json |-> TRUE, value |-> value]
TextBody(raw) == [raw |-> raw, json |-> FALSE, value |-> NoValue]

Bodies ==
  { JsonBody(<<"{file}">>, FileValue(SmallDoc)),
    JsonBody(<<"{file,box:null}">>, FileValue(NullBoxDoc)),
    JsonBody(<<"{document}">>, [FileValue(SmallDoc) EXCEPT !.hasComponents = FALSE,
                                                          !.hasStyles = FALSE]),
    JsonBody(<<"{}">>, NoValue),
    TextBody(<<"Forbidden">>) }

Statuses == {200, 299, 300, 403, 500}

Responses == [status : Statuses, body : Bodies]

(***************************************************************************)
(* The server with the host delivering one call at a time                  *)
(***************************************************************************)
Next ==
  \/ \E n \in CallNames, a \in RawArgs : Invoke(1, n, a)
  \/ \E resp \in Responses : FetchResolve(1, resp)
  \/ FetchReject(1)
  \/ BodyRead(1)
  \/ Resume(1)
  \/ Retire(1)

Spec == Init /\ [][Next]_vars

(***************************************************************************)
(* Properties of the dispatcher and the client                             *)
(***************************************************************************)
\* the arguments of the call fail the schema of its (known) tool
InvalidArgs(c) ==
  name[c] \in ToolNames /\ Len(ZodIssues(SchemaOf(name[c]), args[c])) > 0

Ended(c) == pc[c] = "done" /\ Len(results[c]) = 1

\* C1: a call of a known tool whose raw arguments fail the tool's schema
\* fails with the InvalidParams classification, and the message of the
\* failure names every offending field.
C1_InvalidArgsAreInvalidParams ==
  \A c \in Calls :
    (pc[c] = "done" /\ InvalidArgs(c)) =>
      /\ Len(results[c]) = 1
      /\ results[c][1].kind = "failure"
      /\ results[c][1].code = "InvalidParams"
      /\ \A i \in 1..Len(ZodIssues(SchemaOf(name[c]), args[c])) :
           includes(results[c][1].message,
                    ZodIssues(SchemaOf(name[c]), args[c])[i].path)

\* C2: no HTTP request is issued before the tool name has been found and the
\* arguments have passed the tool's schema; a call with an unknown name or
\* with invalid arguments ends in a failure with zero requests issued.
C2_NoRequestBeforeValidation ==
  \A c \in Calls :
    /\ Len(requests[c]) > 0 => (name[c] \in ToolNames /\ ~InvalidArgs(c))
    /\ (pc[c] = "done" /\ (name[c] \notin ToolNames \/ InvalidArgs(c))) =>
         /\ Len(results[c]) = 1
         /\ results[c][1].kind = "failure"
         /\ Len(requests[c]) = 0

\* get_images with scale 5 has ended in a failure without a request
C2_Witness ==
  \E c \in Calls :
    /\ pc[c] = "done"
    /\ name[c] = "get_images"
    /\ Has(args[c], "scale")
    /\ args[c].f["scale"].n = 500
    /\ Len(requests[c]) = 0
    /\ results[c][1].kind = "failure"

ErrorCodes == {"InvalidParams", "MethodNotFound", "InternalError"}

\* a CallResult is a success payload or a classified failure, not both
WellFormedResult(r) ==
  \/ r.kind = "success" /\ r.code = "" /\ r.message = <<>>
       /\ "none" \notin DOMAIN r.payload
  \/ r.kind = "failure" /\ r.code \in ErrorCodes /\ "none" \in DOMAIN r.payload

\* C3: a tool invocation produces no result before it ends and exactly one
\* when it has ended: one success payload or one classified failure.
C3_ExactlyOneResult ==
  \A c \in Calls :
    /\ Len(results[c]) <= 1
    /\ pc[c] = "done" <=> Len(results[c]) = 1
    /\ \A i \in 1..Len(results[c]) : WellFormedResult(results[c][i])

\* a call whose fetch was rejected has ended with its one failure
C3_Witness ==
  \E c \in Calls :
    /\ Ended(c)
    /\ Len(requests[c]) = 1
    /\ response[c].status = 0
    /\ results[c][1].kind = "failure"

\* C4: a call whose name is not a registered tool fails with MethodNotFound
\* whatever its arguments are; nothing of the arguments enters the result
\* and no request is issued.
C4_UnknownToolMethodNotFound ==
  \A c \in Calls :
    (pc[c] = "done" /\ name[c] \notin ToolNames) =>
      /\ Len(results[c]) = 1
      /\ results[c][1] =
           Failure(McpError("MethodNotFound", <<"Unknown tool: ", name[c]>>))
      /\ Len(requests[c]) = 0

\* an unknown tool called without arguments has ended with MethodNotFound
C4_Witness ==
  \E c \in Calls :
    /\ Ended(c)
    /\ name[c] = "delete_file"
    /\ ~args[c].given
    /\ results[c][1].code = "MethodNotFound"

\* C5: when the handler of a validated call raises an error that is not an
\* McpError, the call fails with InternalError and the message of the failure
\* contains the message of the original error.
C5_HandlerErrorIsInternalError ==
  \A c \in Calls :
    (/\ pc[c] = "done"
     /\ Len(requests[c]) > 0
     /\ Finish(name[c], args[c], settled[c]).kind = "throw"
     /\ ~Finish(name[c], args[c], settled[c]).err.mcp) =>
      /\ Len(results[c]) = 1
      /\ results[c][1].kind = "failure"
      /\ results[c][1].code = "InternalError"
      /\ includes(results[c][1].message,
                  Finish(name[c], args[c], settled[c]).err.message)
      /\ ~settled[c].ok => includes(results[c][1].message, settled[c].err.message)

\* a handler that got a decoded body and then raised has ended with InternalError
C5_Witness ==
  \E c \in Calls :
    /\ Ended(c)
    /\ settled[c].ok
    /\ results[c][1].code = "InternalError"
    /\ includes(results[c][1].message, TypeErrorKeys.message)

\* C6: a response whose status is outside 200-299 makes the client operation
\* fail with an error whose message carries the status and the raw body text;
\* the body is not decoded and the request is not sent again.
C6_NonOkStatusRejects ==
  \A c \in Calls :
    (/\ pc[c] \in {"resuming", "done"}
     /\ response[c].status # 0
     /\ ~responseOk(response[c].status)) =>
      /\ ~settled[c].ok
      /\ settled[c].value = NoValue
      /\ settled[c].err.message =
           <<"Figma API error (", ToString(response[c].status), "): ">>
           \o response[c].body.raw
      /\ Len(requests[c]) = 1

\* getFile answered with 403 and a JSON body has been rejected
C6_Witness ==
  \E c \in Calls :
    /\ pc[c] = "resuming"
    /\ name[c] = "get_file"
    /\ response[c].status = 403
    /\ response[c].body.json
    /\ includes(settled[c].err.message, <<"403">>)

\* C7: a call issues at most one HTTP request, exactly one once its client
\* operation has started, and each request carries the access token header;
\* post_comment sends one POST whatever the upstream answers.
C7_OneRequestWithToken ==
  \A c \in Calls :
    /\ Len(requests[c]) <= 1
    /\ pc[c] \in {"fetching", "reading", "resuming"} => Len(requests[c]) = 1
    /\ \A i \in 1..Len(requests[c]) :
         /\ "X-Figma-Token" \in DOMAIN requests[c][i].headers
         /\ requests[c][i].headers["X-Figma-Token"] = AccessToken
         /\ requests[c][i].method = IF name[c] = "post_comment" THEN "POST" ELSE "GET"
    /\ (pc[c] = "done" /\ name[c] \in ToolNames /\ ~InvalidArgs(c)
        /\ name[c] # "get_file_from_url") => Len(requests[c]) = 1

\* post_comment answered with 500 has ended having sent its one POST
C7_Witness ==
  \E c \in Calls :
    /\ Ended(c)
    /\ name[c] = "post_comment"
    /\ response[c].status = 500
    /\ results[c][1].kind = "failure"
    /\ Len(requests[c]) = 1
    /\ requests[c][1].method = "POST"
    /\ requests[c][1].body.present

(***************************************************************************)
(* The server with the host delivering calls concurrently                  *)
(***************************************************************************)
ConcNames == {"get_comments", "post_comment", "rename_file"}

ConcArgs ==
  { ArgsOf([file_key |-> StrV(KeyA)]),
    ArgsOf([file_key |-> StrV(KeyB), message |-> StrV(<<"hi">>)]) }

ConcResponses ==
  { [status |-> 200, body |-> JsonBody(<<"{file}">>, FileValue(SmallDoc))],
    [status |-> 200, body |-> JsonBody(<<"{}">>, NoValue)],
    [status |-> 403, body |-> TextBody(<<"Forbidden">>)] }

ConcNext ==
  \E c \in Calls :
    \/ \E n \in ConcNames, a \in ConcArgs : Invoke(c, n, a)
    \/ \E resp \in ConcResponses : FetchResolve(c, resp)
    \/ FetchReject(c)
    \/ BodyRead(c)
    \/ Resume(c)
    \/ Retire(c)

ConcSpec == Init /\ [][ConcNext]_vars

\* the result the handler gives for the call's own name, arguments and the
\* upstream's answer to its own request
OwnResult(c) ==
  IF Begin(name[c], args[c]).kind = "throw"
  THEN ResultOf(Begin(name[c], args[c]))
  ELSE ResultOf(Finish(name[c], args[c],
                       IF response[c].status = 0 THEN FetchFailed
                       ELSE requestSettle(response[c])))

\* C8: with several calls in flight, the result of each call is the one its
\* own name, arguments and upstream response determine, and the next step
\* of a call is enabled whatever the other calls are waiting for.
C8_CallsIndependent ==
  \A c \in Calls :
    /\ pc[c] = "done" => results[c] = <<OwnResult(c)>>
    /\ pc[c] = "resuming" =>
         settled[c] = IF response[c].status = 0 THEN FetchFailed
                      ELSE requestSettle(response[c])
    /\ pc[c] = "idle" => ENABLED (\E n \in ConcNames, a \in ConcArgs : Invoke(c, n, a))
    /\ pc[c] = "fetching" => ENABLED (\E resp \in ConcResponses : FetchResolve(c, resp))
    /\ pc[c] = "reading" => ENABLED BodyRead(c)
    /\ pc[c] = "resuming" => ENABLED Resume(c)

\* a call has ended with the payload of its own response while another call,
\* whose fetch resolved with a 403, is still waiting for its body
C8_Witness ==
  \E c, d \in Calls :
    /\ c # d
    /\ pc[c] = "reading"
    /\ response[c].status = 403
    /\ Ended(d)
    /\ response[d].status = 200
    /\ results[d][1].kind = "success"

(***************************************************************************)
(* search_nodes over many documents                                        *)
(***************************************************************************)
SearchQueries == {<<>>, <<"b">>, <<"B">>, <<"b", "t">>, <<"T", "B">>}

SearchTypes == {<<>>, <<"f">>, <<"F">>, <<"t", "e", "x", "t">>}

SearchArgs ==
  { ArgsOf([file_key |-> StrV(KeyA), query |-> StrV(q)]) : q \in SearchQueries }
  \cup
  { ArgsOf([file_key |-> StrV(KeyA), query |-> StrV(q), type |-> StrV(t)]) :
      q \in SearchQueries, t \in SearchTypes }

Labels ==
  [name : {<<"b">>, <<"B", "t">>, <<"t">>}, type : {<<"F">>, <<"f">>}]
  \cup {[name |-> <<"t", "b">>, type |-> TextType]}

L(id, l) == Leaf(<<id>>, l.name, l.type)
P(id, l, kids) == Parent(<<id>>, l.name, l.type, kids)

\* every labelled tree of one to three nodes
SmallTrees ==
  { L("0", a) : a \in Labels }
  \cup { P("0", a, <<L("1", b)>>) : a \in Labels, b \in Labels }
  \cup { P("0", a, <<L("1", b), L("2", c)>>) :
           a \in Labels, b \in Labels, c \in Labels }
  \cup { P("0", a, <<P("1", b, <<L("2", c)>>)>>) :
           a \in Labels, b \in Labels, c \in Labels }

\* child i of a wide tree: every m-th child is named t and typed f, the
\* child after it holds a grandchild
WideChild(i, m) ==
  IF m > 0 /\ i % m = 0
  THEN Leaf(<<ToString(i)>>, <<"t">>, <<"f">>)
  ELSE IF m > 0 /\ i % m = 1
  THEN Parent(<<ToString(i)>>, <<"b">>, <<"F">>,
              <<Leaf(<<ToString(i), ":", "1">>, <<"B", "t">>, <<"F">>)>>)
  ELSE Leaf(<<ToString(i)>>, <<"b">>, <<"F">>)

\* a root with k children
WideTree(k, m) ==
  Parent(<<"0">>, <<"t">>, <<"D">>, [i \in 1..k |-> WideChild(i, m)])

WideTrees == { WideTree(k, m) : k \in (MaxWide - 3)..MaxWide, m \in {0, 5, 9} }

SearchResponses ==
  { [status |-> 200, body |-> JsonBody(<<"{file}">>, FileValue(t))] :
      t \in SmallTrees \cup WideTrees }
  \cup { [status |-> 200, body |-> JsonBody(<<"{}">>, NoValue)] }

SearchNext ==
  \/ \E a \in SearchArgs : Invoke(1, "search_nodes", a)
  \/ \E resp \in SearchResponses : FetchResolve(1, resp)
  \/ FetchReject(1)
  \/ BodyRead(1)
  \/ Resume(1)
  \/ Retire(1)

SearchSpec == Init /\ [][SearchNext]_vars

\* a search_nodes call has ended with a success payload
SearchEnded(c) ==
  Ended(c) /\ name[c] = "search_nodes" /\ results[c][1].kind = "success"

\* the nodes of the document the search of call c ran on, in pre-order
SearchedNodes(c) == flattenNodes(response[c].body.value.document)

\* a and b are equal up to the case of their characters
SameIgnoringCase(a, b) == toLowerCase(a) = toLowerCase(b)

\* the match as claimed: name contains the query and, with a filter given,
\* the type equals the filter, both case-insensitively
ClaimedMatch(node, a) ==
  /\ includes(toLowerCase(node.name), toLowerCase(a.f["query"].s))
  /\ Has(a, "type") => SameIgnoringCase(node.type, a.f["type"].s)

\* the match as amended: the type equals the upper-cased filter exactly, and
\* an empty filter counts as no filter
AmendedMatch(node, a) ==
  /\ includes(toLowerCase(node.name), toLowerCase(a.f["query"].s))
  /\ (Has(a, "type") /\ a.f["type"].s # <<>>) =>
       node.type = toUpperCase(a.f["type"].s)

\* the payload of call c lists the nodes of kept, up to the cap, and counts them
PayloadLists(c, kept) ==
  /\ results[c][1].payload.matchCount = Len(kept)
  /\ Len(results[c][1].payload.matches) = Min2(MaxMatches, Len(kept))
  /\ \A i \in 1..Len(results[c][1].payload.matches) :
       /\ results[c][1].payload.matches[i].id = kept[i].id
       /\ results[c][1].payload.matches[i].name = kept[i].name
       /\ results[c][1].payload.matches[i].type = kept[i].type

\* C9 (as claimed): search keeps exactly the nodes whose name contains the
\* query case-insensitively and, when a type filter is given, whose type
\* equals the filter case-insensitively.
C9_SearchCaseInsensitive ==
  \A c \in Calls :
    SearchEnded(c) =>
      PayloadLists(c, SelectSeq(SearchedNodes(c),
                                LAMBDA node : ClaimedMatch(node, args[c])))

\* C9 (amended): search keeps exactly the nodes whose name contains the query
\* case-insensitively and, when a non-empty type filter is given, whose type is
\* exactly the upper-cased filter; with no filter or an empty one every type
\* is accepted.
C9_SearchUpperCasedFilter ==
  \A c \in Calls :
    SearchEnded(c) =>
      PayloadLists(c, SelectSeq(SearchedNodes(c),
                                LAMBDA node : AmendedMatch(node, args[c])))

\* a search with the lower-case filter f has kept a node of type F whose name
\* matches in another case, and dropped a matching node of type f
C9_Witness ==
  \E c \in Calls :
    /\ SearchEnded(c)
    /\ Has(args[c], "type")
    /\ args[c].f["type"].s = <<"f">>
    /\ args[c].f["query"].s = <<"b", "t">>
    /\ results[c][1].payload.matchCount = 1
    /\ results[c][1].payload.matches[1].type = <<"F">>
    /\ results[c][1].payload.matches[1].name = <<"B", "t">>
    /\ \E i \in 1..Len(SearchedNodes(c)) :
         /\ SearchedNodes(c)[i].type = <<"f">>
         /\ SearchedNodes(c)[i].name = <<"B", "t">>

\* the number of nodes the filter of the search of call c accepts
TotalMatching(c) ==
  Cardinality({ i \in 1..Len(SearchedNodes(c)) :
                  searchMatch(SearchedNodes(c)[i], Field(args[c], "query").s,
                              Has(args[c], "type"), Field(args[c], "type").s) })

\* C10: the reported match count is the total number of matching nodes and
\* the returned list holds the first min(50, total) matches in pre-order.
C10_CountIsTotalListIsCapped ==
  \A c \in Calls :
    SearchEnded(c) =>
      /\ results[c][1].payload.matchCount = TotalMatching(c)
      /\ Len(results[c][1].payload.matches) <= MaxMatches
      /\ Len(results[c][1].payload.matches) = Min2(MaxMatches, TotalMatching(c))
      /\ \A j \in 1..Len(results[c][1].payload.matches) :
           \E i \in 1..Len(SearchedNodes(c)) :
             /\ results[c][1].payload.matches[j].id = SearchedNodes(c)[i].id
             /\ searchMatch(SearchedNodes(c)[i], Field(args[c], "query").s,
                            Has(args[c], "type"), Field(args[c], "type").s)
             /\ Cardinality({ h \in 1..(i - 1) :
                  searchMatch(SearchedNodes(c)[h], Field(args[c], "query").s,
                              Has(args[c], "type"), Field(args[c], "type").s) })
                = j - 1

\* a search with more matches than the cap has ended
C10_Witness ==
  \E c \in Calls :
    /\ SearchEnded(c)
    /\ results[c][1].payload.matchCount > MaxMatches
    /\ Len(results[c][1].payload.matches) = MaxMatches

(***************************************************************************)
(* The exports of figma-client and the tool listing, used directly         *)
(***************************************************************************)
\* parseFigmaUrl(util.url)
ParseUrl ==
  /\ util.op = "parseFigmaUrl"
  /\ ~util.done
  /\ util' = [op |-> "parseFigmaUrl", done |-> TRUE, url |-> util.url,
              out |-> parseFigmaUrl(util.url)]
  /\ UNCHANGED <<pc, name, args, requests, response, settled, results>>

Tool(n, required) == [name |-> n, required |-> required]

\* the listing with its last descriptor left out
ListedToolsShort ==
  << Tool("get_file", {"file_key"}),
     Tool("get_file_from_url", {"url"}),
     Tool("get_node", {"file_key", "node_id"}),
     Tool("get_nodes", {"file_key", "node_ids"}),
     Tool("get_images", {"file_key", "node_ids"}),
     Tool("get_comments", {"file_key"}),
     Tool("post_comment", {"file_key", "message"}),
     Tool("get_components", {"file_key"}),
     Tool("get_styles", {"file_key"}),
     Tool("search_nodes", {"file_key", "query"}),
     Tool("get_project_files", {"project_id"}) >>

\* the tools the ListToolsRequestSchema handler returns
ListedTools ==
  << Tool("get_file", {"file_key"}),
     Tool("get_file_from_url", {"url"}),
     Tool("get_node", {"file_key", "node_id"}),
     Tool("get_nodes", {"file_key", "node_ids"}),
     Tool("get_images", {"file_key", "node_ids"}),
     Tool("get_comments", {"file_key"}),
     Tool("post_comment", {"file_key", "message"}),
     Tool("get_components", {"file_key"}),
     Tool("get_styles", {"file_key"}),
     Tool("search_nodes", {"file_key", "query"}),
     Tool("get_project_files", {"project_id"}),
     Tool("get_team_projects", {"team_id"}) >>

\* the ListToolsRequestSchema handler
ListTools ==
  /\ util.op = "listTools"
  /\ ~util.done
  /\ util' = [op |-> "listTools", done |-> TRUE, out |-> ListedTools]
  /\ UNCHANGED <<pc, name, args, requests, response, settled, results>>

\* flattenNodes(util.tree)
Flatten ==
  /\ util.op = "flattenNodes"
  /\ ~util.done
  /\ util' = [op |-> "flattenNodes", done |-> TRUE, tree |-> util.tree,
              out |-> flattenNodes(util.tree)]
  /\ UNCHANGED <<pc, name, args, requests, response, settled, results>>

\* findNodeById(util.tree, util.id)
FindById ==
  /\ util.op = "findNodeById"
  /\ ~util.done
  /\ util' = [op |-> "findNodeById", done |-> TRUE, tree |-> util.tree,
              id |-> util.id, out |-> findNodeById(util.tree, util.id)]
  /\ UNCHANGED <<pc, name, args, requests, response, settled, results>>

\* ids of the nodes of the trees, not unique within a tree
TreeIds == {<<"a">>, <<"b">>}

\* the trees of n nodes whose root is named by its path from the top, and the
\* forests of m nodes whose first tree is child k of the node at path; a node
\* without children has no children field or an empty one
RECURSIVE TreesAt(_, _)
RECURSIVE ForestsAt(_, _, _)
TreesAt(n, path) ==
  IF n = 1
  THEN { Leaf(id, path, <<"F">>) : id \in TreeIds }
       \cup { Parent(id, path, <<"F">>, <<>>) : id \in TreeIds }
  ELSE { Parent(id, path, <<"F">>, kids) :
           id \in TreeIds, kids \in ForestsAt(n - 1, path, 1) }

ForestsAt(m, path, k) ==
  IF m = 0 THEN { <<>> }
  ELSE UNION { { <<t>> \o f : t \in TreesAt(j, path \o <<ToString(k)>>),
                              f \in ForestsAt(m - j, path, k + 1) } :
               j \in 1..m }

Trees == UNION { TreesAt(n, <<"r">>) : n \in 1..MaxTreeNodes }

\* summarizeNode(util.node): the summary it returns or the error it throws
Summarize ==
  /\ util.op = "summarizeNode"
  /\ ~util.done
  /\ util' = [op |-> "summarizeNode", done |-> TRUE, node |-> util.node,
              out |-> IF summarizeThrows(util.node)
                      THEN [threw |-> TRUE, err |-> summarizeError(util.node),
                            text |-> <<>>]
                      ELSE [threw |-> FALSE, err |-> NoError,
                            text |-> summarizeNode(util.node)]]
  /\ UNCHANGED <<pc, name, args, requests, response, settled, results>>

\* the children, text content, fills and bounding box a summarised node may
\* carry: absent, present as the FigmaNode consumers expect, or present with
\* another JSON shape (a number for characters or fills, null for the box)
ChildrenChoices ==
  { [has |-> FALSE, kids |-> <<>>], [has |-> TRUE, kids |-> <<>>],
    [has |-> TRUE,
     kids |-> <<Leaf(<<"a">>, <<"k", "1">>, <<"F">>),
                Leaf(<<"b">>, <<"k", "2">>, <<"F">>)>>] }

CharactersChoices ==
  { [has |-> FALSE, str |-> FALSE, chars |-> <<>>],
    [has |-> TRUE, str |-> FALSE, chars |-> <<>>],
    [has |-> TRUE, str |-> TRUE, chars |-> <<"h", "i">>],
    [has |-> TRUE, str |-> TRUE, chars |-> [i \in 1..MaxChars |-> "x"]] }

FillsChoices ==
  { [has |-> FALSE, arr |-> FALSE, n |-> 0], [has |-> TRUE, arr |-> FALSE, n |-> 0],
    [has |-> TRUE, arr |-> TRUE, n |-> 0], [has |-> TRUE, arr |-> TRUE, n |-> 2] }

BoxChoices ==
  { [has |-> FALSE, obj |-> FALSE, w |-> 0, h |-> 0],
    [has |-> TRUE, obj |-> FALSE, w |-> 0, h |-> 0],
    [has |-> TRUE, obj |-> TRUE, w |-> 1050, h |-> 249] }

SummaryNodes ==
  { [id |-> Id12, name |-> <<"B", "t">>, type |-> ty,
     hasChildren |-> ch.has, children |-> ch.kids,
     props |-> [hasCharacters |-> tx.has, charactersIsString |-> tx.str,
                characters |-> tx.chars,
                hasFills |-> fl.has, fillsIsArray |-> fl.arr, fills |-> fl.n,
                hasBox |-> bx.has, boxIsObject |-> bx.obj,
                width |-> bx.w, height |-> bx.h]] :
    ty \in {TextType, <<"F">>}, ch \in ChildrenChoices, tx \in CharactersChoices,
    fl \in FillsChoices, bx \in BoxChoices }

UrlHeads == Origins \cup {"www.figma.com", "not a url"}

PathTokens == {"/", "file", "design", "ABC123", "-"}

\* a path is "/"-led, and its word tokens are maximal runs
WellTokenised(p) ==
  /\ Len(p) > 0 => p[1] = "/"
  /\ \A i \in 1..(Len(p) - 1) :
       /\ ~(p[i] \in AlnumWords /\ p[i + 1] \in AlnumWords)
       /\ ~(p[i] = "-" /\ p[i + 1] = "-")

Paths ==
  { p \in UNION { [1..k -> PathTokens] : k \in 0..MaxPathLen } : WellTokenised(p) }

Queries ==
  { <<>>, <<"?node-id=", "1%3A2">>, <<"?node-id=">>, <<"?t=", "1">>,
    <<"?t=", "1", "&node-id=", "0%3A1">>, <<"?node-id=", "&t=", "1">> }

Urls == { <<h>> \o p \o q : h \in UrlHeads, p \in Paths, q \in Queries }

UtilInputs ==
  { [op |-> "parseFigmaUrl", done |-> FALSE, url |-> u] : u \in Urls }
  \cup { [op |-> "listTools", done |-> FALSE] }
  \cup { [op |-> "flattenNodes", done |-> FALSE, tree |-> t] : t \in Trees }
  \cup { [op |-> "findNodeById", done |-> FALSE, tree |-> t, id |-> i] :
           t \in Trees, i \in TreeIds \cup {<<"c">>} }
  \cup { [op |-> "summarizeNode", done |-> FALSE, node |-> n] :
           n \in SummaryNodes }

UtilInit ==
  /\ pc = [c \in Calls |-> "idle"]
  /\ name = [c \in Calls |-> ""]
  /\ args = [c \in Calls |-> NoArgs]
  /\ requests = [c \in Calls |-> <<>>]
  /\ response = [c \in Calls |-> NoResponse]
  /\ settled = [c \in Calls |-> Pending]
  /\ results = [c \in Calls |-> <<>>]
  /\ util \in UtilInputs

UtilNext ==
  \/ ParseUrl
  \/ ListTools
  \/ Flatten
  \/ FindById
  \/ Summarize

UtilSpec == UtilInit /\ [][UtilNext]_vars

Ran(op) == util.op = op /\ util.done

\* the path p has a "/file/<key>" or "/design/<key>" segment whose key starts
\* at token k
KeySegment(p, k) ==
  /\ k >= 4
  /\ k <= Len(p)
  /\ p[k] \notin {"/", "-"}
  /\ p[k - 1] = "/"
  /\ p[k - 2] = "file" \/ p[k - 2] = "design"
  /\ p[k - 3] = "/"

\* the tokens of url between its head and its query
PathOf(url) ==
  [i \in 1..Cardinality({ j \in 2..Len(url) :
                            \A h \in 2..j : url[h] \notin {"?node-id=", "?t="} })
     |-> url[i + 1]]

WellFormedUrl(url) ==
  url[1] \in {"https://www.figma.com", "https://example.org", "file://"}

\* the query of url has a node-id parameter, with the value v (decoded)
NodeIdParam(url, v) ==
  \E i \in 2..Len(url) :
    /\ url[i] \in {"?node-id=", "&node-id="}
    /\ \A j \in 2..(i - 1) : url[j] \notin {"?node-id=", "&node-id="}
    /\ v = IF i < Len(url) /\ url[i + 1] = "1%3A2" THEN <<"1", ":", "2">>
           ELSE IF i < Len(url) /\ url[i + 1] = "0%3A1" THEN <<"0", ":", "1">>
           ELSE <<>>

\* parse(url) does not raise, returns no result for a URL that is not well
\* formed or has no key segment, and otherwise the first key
ParsesKey ==
  /\ ~util.out.threw
  /\ util.out.found <=>
       (WellFormedUrl(util.url)
        /\ \E k \in 1..Len(PathOf(util.url)) : KeySegment(PathOf(util.url), k))
  /\ util.out.found =>
       \E k \in 1..Len(PathOf(util.url)) :
         /\ KeySegment(PathOf(util.url), k)
         /\ \A j \in 1..(k - 1) : ~KeySegment(PathOf(util.url), j)
         /\ util.out.fileKey = <<PathOf(util.url)[k]>>

\* C11 (as claimed): parse(url) never raises; it returns no result when the
\* string is not a well-formed URL or its path has no /file/<key> or
\* /design/<key> segment, and otherwise the key with the decoded node-id
\* parameter when one is present, and no node id otherwise.
C11_ParseNodeIdWhenPresent ==
  Ran("parseFigmaUrl") =>
    /\ ParsesKey
    /\ util.out.found =>
         /\ \A v \in {<<>>, Id12, Id01} :
              NodeIdParam(util.url, v) => (util.out.hasNodeId /\ util.out.nodeId = v)
         /\ (~\E v \in {<<>>, Id12, Id01} : NodeIdParam(util.url, v)) =>
              ~util.out.hasNodeId

\* C11 (amended): as claimed, but the node id is returned when the node-id
\* parameter is present and not empty; an empty one gives no node id.
C11_ParseNodeIdWhenNonEmpty ==
  Ran("parseFigmaUrl") =>
    /\ ParsesKey
    /\ util.out.found =>
         /\ \A v \in {Id12, Id01} :
              NodeIdParam(util.url, v) => (util.out.hasNodeId /\ util.out.nodeId = v)
         /\ (~\E v \in {Id12, Id01} : NodeIdParam(util.url, v)) =>
              ~util.out.hasNodeId

\* a URL whose key is followed by more characters and whose node-id is the
\* second parameter has been parsed, with the node id decoded
C11_Witness ==
  /\ Ran("parseFigmaUrl")
  /\ util.url = <<"https://www.figma.com", "/", "design", "/", "ABC123", "-",
                  "?t=", "1", "&node-id=", "0%3A1">>
  /\ util.out.found
  /\ util.out.fileKey = <<"ABC123">>
  /\ util.out.nodeId = <<"0", ":", "1">>

\* the switch of the call handler has a case for the name n
Handles(n) ==
  ~(/\ Begin(n, NoArgs).kind = "throw"
    /\ Begin(n, NoArgs).err.mcp
    /\ Begin(n, NoArgs).err.code = "MethodNotFound")

\* C12: the tool listing has exactly 12 descriptors with pairwise distinct
\* names, and the call handler handles a name if and only if it is listed.
C12_ListedIffHandled ==
  Ran("listTools") =>
    /\ Len(util.out) = 12
    /\ \A i, j \in 1..Len(util.out) :
         util.out[i].name = util.out[j].name => i = j
    /\ \A n \in CallNames \cup { util.out[i].name : i \in 1..Len(util.out) } :
         Handles(n) <=> \E i \in 1..Len(util.out) : util.out[i].name = n

\* the tools have been listed, the last case of the switch among them
C12_Witness ==
  /\ Ran("listTools")
  /\ \E i \in 1..Len(util.out) : util.out[i].name = "get_team_projects"
  /\ Handles("get_team_projects")
  /\ ~Handles("delete_file")

\* the positions of the nodes of a tree: the paths of child numbers from
\* its root
RECURSIVE Positions(_)
Positions(node) ==
  { <<>> } \cup
  (IF node.hasChildren
   THEN UNION { { <<k>> \o p : p \in Positions(node.children[k]) } :
                k \in 1..Len(node.children) }
   ELSE {})

RECURSIVE NodeAt(_, _)
NodeAt(node, p) ==
  IF Len(p) = 0 THEN node ELSE NodeAt(node.children[p[1]], Tail(p))

\* position p comes before position q in pre-order: p is an ancestor of q,
\* or p is in the subtree of an earlier sibling where the two paths part
Precedes(p, q) ==
  \/ Len(p) < Len(q) /\ \A i \in 1..Len(p) : p[i] = q[i]
  \/ \E i \in 1..Min2(Len(p), Len(q)) :
       /\ p[i] < q[i]
       /\ \A j \in 1..(i - 1) : p[j] = q[j]

\* the place of position p in the pre-order of the tree
Rank(tree, p) == 1 + Cardinality({ q \in Positions(tree) : Precedes(q, p) })

RECURSIVE SumFlattened(_, _)
\* the sum of the lengths of flatten(child) over the children from child i on
SumFlattened(kids, i) ==
  IF i > Len(kids) THEN 0
  ELSE Len(flattenNodes(kids[i])) + SumFlattened(kids, i + 1)

\* C13: flatten(T) lists every node of T exactly once in pre-order (a node
\* before its descendants, children left to right, a parent right before its
\* first child), and its length is one plus the sum of the lengths of the
\* flattened children.
C13_FlattenIsPreOrder ==
  Ran("flattenNodes") =>
    /\ Len(util.out) = Cardinality(Positions(util.tree))
    /\ \A p \in Positions(util.tree) :
         /\ util.out[Rank(util.tree, p)] = NodeAt(util.tree, p)
         /\ (p \o <<1>>) \in Positions(util.tree) =>
              util.out[Rank(util.tree, p) + 1] = NodeAt(util.tree, p \o <<1>>)
    /\ Len(util.out) =
         1 + (IF util.tree.hasChildren THEN SumFlattened(util.tree.children, 1)
              ELSE 0)

\* a tree whose first child has a child of its own and whose second child
\* comes last has been flattened
C13_Witness ==
  /\ Ran("flattenNodes")
  /\ Len(util.out) = 4
  /\ Len(util.tree.children) = 2
  /\ Len(util.tree.children[1].children) = 1
  /\ util.out[3] = util.tree.children[1].children[1]
  /\ util.out[4] = util.tree.children[2]

\* C14: findById(T, id) returns none if and only if no node of flatten(T) has
\* the id, and otherwise the first node of flatten(T) with the id, also when
\* several nodes share it.
C14_FindFirstInPreOrder ==
  Ran("findNodeById") =>
    /\ ~util.out.found <=>
         \A i \in 1..Len(flattenNodes(util.tree)) :
           flattenNodes(util.tree)[i].id # util.id
    /\ util.out.found =>
         \E i \in 1..Len(flattenNodes(util.tree)) :
           /\ flattenNodes(util.tree)[i].id = util.id
           /\ \A j \in 1..(i - 1) : flattenNodes(util.tree)[j].id # util.id
           /\ util.out.node = flattenNodes(util.tree)[i]

\* an id that two nodes below the root share has been looked up, and the
\* earlier of the two was returned
C14_Witness ==
  /\ Ran("findNodeById")
  /\ util.out.found
  /\ \E i, j \in 2..Len(flattenNodes(util.tree)) :
       /\ i < j
       /\ flattenNodes(util.tree)[i].id = util.id
       /\ flattenNodes(util.tree)[j].id = util.id
       /\ flattenNodes(util.tree)[1].id # util.id
       /\ util.out.node = flattenNodes(util.tree)[i]

\* the summary has a segment that starts with the label
HasSegment(text, label) == \E i \in 1..Len(text) : text[i] = label

\* the tokens of the summary from the one after the label up to the next
\* separator or the end
RECURSIVE UpToSeparator(_, _)
UpToSeparator(text, i) ==
  IF i > Len(text) \/ text[i] = " | " THEN <<>>
  ELSE <<text[i]>> \o UpToSeparator(text, i + 1)

SegmentAfter(text, label) ==
  UpToSeparator(text, 1 + CHOOSE i \in 1..Len(text) : text[i] = label)

SummaryHead(node) ==
  node.type \o <<": \"">> \o node.name \o <<"\" (id: ">> \o node.id \o <<")">>

\* C15: summarize(node) never fails, always emits type, quoted name and id,
\* and emits the child count, the text cut to 50 characters with a
\* continuation marker, the fill count and the rounded width x height exactly
\* when the node has children, is a text node with text content, has a fill
\* list, has a bounding box.
C15_SummarizeNeverFails ==
  Ran("summarizeNode") =>
    /\ ~util.out.threw
    /\ SubSeq(util.out.text, 1, Len(SummaryHead(util.node))) =
         SummaryHead(util.node)
    /\ HasSegment(util.out.text, "children: ") <=> util.node.hasChildren
    /\ HasSegment(util.out.text, "children: ") =>
         SegmentAfter(util.out.text, "children: ") =
           <<ToString(Len(util.node.children))>>
    /\ HasSegment(util.out.text, "text: \"") <=>
         /\ util.node.type = TextType
         /\ util.node.props.hasCharacters
         /\ util.node.props.charactersIsString
    /\ HasSegment(util.out.text, "text: \"") =>
         SegmentAfter(util.out.text, "text: \"") =
           SubSeq(util.node.props.characters, 1,
                  Min2(50, Len(util.node.props.characters))) \o <<"...\"">>
    /\ HasSegment(util.out.text, "fills: ") <=>
         util.node.props.hasFills /\ util.node.props.fillsIsArray
    /\ HasSegment(util.out.text, "fills: ") =>
         SegmentAfter(util.out.text, "fills: ") =
           <<ToString(util.node.props.fills)>>
    /\ HasSegment(util.out.text, "size: ") <=>
         util.node.props.hasBox /\ util.node.props.boxIsObject
    /\ HasSegment(util.out.text, "size: ") =>
         SegmentAfter(util.out.text, "size: ") =
           <<ToString((util.node.props.width + 50) \div 100), "x",
             ToString((util.node.props.height + 50) \div 100)>>

\* the client operation of the call got a success status and a body that is
\* not JSON, and has settled
Undecodable(c) ==
  /\ pc[c] \in {"resuming", "done"}
  /\ responseOk(response[c].status)
  /\ ~response[c].body.json

\* the error a client operation produces for a non-success status
IsStatusError(err) ==
  /\ Len(err.message) >= 3
  /\ err.message[1] = "Figma API error ("
  /\ err.message[3] = "): "

\* C16: a client operation whose response has a success status and a body
\* that is not JSON fails with the decode error, which no non-success status
\* produces, and the call never returns a result made from that body.
C16_UndecodableBodyIsDecodeError ==
  \A c \in Calls :
    Undecodable(c) =>
      /\ ~settled[c].ok
      /\ settled[c].value = NoValue
      /\ ~settled[c].err.mcp
      /\ ~IsStatusError(settled[c].err)
      /\ \A st \in Statuses, b \in Bodies :
           ~responseOk(st) =>
             /\ IsStatusError(Rejected(Error(
                  <<"Figma API error (", ToString(st), "): ">> \o b.raw)).err)
             /\ Catch(settled[c].err).message #
                  Catch(Error(<<"Figma API error (", ToString(st), "): ">>
                              \o b.raw)).message
      /\ Len(requests[c]) = 1
      /\ pc[c] = "done" =>
           /\ Len(results[c]) = 1
           /\ results[c][1].kind = "failure"
           /\ results[c][1].code = "InternalError"
           /\ results[c][1].message =
                <<"Figma API error: ">> \o settled[c].err.message

\* get_file answered with 200 and a body of plain text has ended with the
\* decode error
C16_Witness ==
  \E c \in Calls :
    /\ pc[c] = "done"
    /\ name[c] = "get_file"
    /\ response[c].status = 200
    /\ ~response[c].body.json
    /\ results[c][1].kind = "failure"
    /\ includes(results[c][1].message, <<"Unexpected token in JSON">>)

====
